---- MODULE Spec2Model ----
(***************************************************************************)
(* Model of the gl3w loader runtime (src/template/gl3w.header.c): the      *)
(* three platform strategies (open_libgl / close_libgl / get_proc), the    *)
(* process-wide version record, parse_version, gl3wInit, gl3wIsSupported   *)
(* and gl3wGetProcAddress.  gl3wInit is modelled statement by statement so *)
(* that the order of its side effects is observable.                       *)
(***************************************************************************)
EXTENDS Integers, Sequences, FiniteSets, TLC

\* ---------------------------------------------------------------- bounds
\* largest major / minor number the driver reports
MaxMajor == 4
MaxMinor == 2

\* ------------------------------------------------------------- constants
\* minimum supported major version (the literal 3 of parse_version and
\* gl3wIsSupported)
MinMajor == 3

Platforms == {"win", "apple", "posix"}

\* The symbol catalog that load_procs walks, in catalog order.  glGetIntegerv
\* is the symbol parse_version calls through.
Catalog == <<"glGetIntegerv", "glFoo", "glBar">>
CatalogNames == {Catalog[k] : k \in 1..Len(Catalog)}
\* names a caller may pass to gl3wGetProcAddress (one is not in the catalog)
ProcNames == {"glGetIntegerv", "glFoo", "glExt"}

DriverMajors == 0..MaxMajor
DriverMinors == 0..MaxMinor
QueryMajors == 0..(MaxMajor + 1)
QueryMinors == 0..(MaxMinor + 1)

VARIABLES
    platform,      \* which #if branch was compiled in
    ndebug,        \* whether assert() is compiled out (NDEBUG)
    libgl,         \* libgl / bundle handle: "unset", "open", "null", "closed"
    glx,           \* glx_get_proc_address: "unset", "valid", "null", "stale"
    ptr,           \* the function-pointer variables, one per catalog symbol
    version,       \* static struct { int major, minor; } version
    pc,            \* position of the single thread of control
    idx,           \* load_procs: index of the next catalog symbol
    drv,           \* this call's driver: which symbols it exports
    dver,          \* this call's driver: the version glGetIntegerv reports
    log,           \* history: the steps the running gl3wInit call has made
    ret,           \* value returned by the last gl3wInit
    parseRet,      \* value returned by the last parse_version
    versionBefore, \* history: version when the running gl3wInit was entered
    queryRan,      \* history: parse_version has reached its glGetIntegerv calls
    called,        \* history: some gl3wInit call has returned
    q,             \* last gl3wIsSupported call since the last gl3wInit
    gp             \* history: the handle state seen by the last get_proc

vars == <<platform, ndebug, libgl, glx, ptr, version, pc, idx, drv, dver, log,
          ret, parseRet, versionBefore, queryRan, called, q, gp>>

ZeroVersion == [major |-> 0, minor |-> 0]
NoDriver == [n \in CatalogNames |-> FALSE]
NoQuery == [asked |-> FALSE, major |-> 0, minor |-> 0, res |-> 0]
NoGetProc == [via |-> "none", libgl |-> "unset", glx |-> "unset"]

\* what a lookup in a healthy module gives for a symbol
Lookup(avail) == IF avail THEN "valid" ELSE "null"
Maybe(avail) == {"null"} \cup (IF avail THEN {"valid"} ELSE {})

\* ------------------------------------------------------ platform strategy
\* open_libgl: the set of [libgl, glx, abort] results, given whether the
\* platform call obtains a module.
open_libgl(plat, nd, gx, ok) ==
    CASE plat = "win" ->
           {[libgl |-> IF ok THEN "open" ELSE "null", glx |-> gx, abort |-> FALSE]}
      [] plat = "apple" ->
           \* assert(bundle != NULL) aborts unless compiled out
           {[libgl |-> IF ok THEN "open" ELSE "null", glx |-> gx,
             abort |-> (~ok /\ ~nd)]}
      [] OTHER ->
           \* dlsym(libgl, "glXGetProcAddressARB"); with a null handle the
           \* lookup is in the global scope and may or may not find it
           IF ok THEN {[libgl |-> "open", glx |-> "valid", abort |-> FALSE]}
           ELSE {[libgl |-> "null", glx |-> g, abort |-> FALSE] : g \in {"valid", "null"}}

\* variant: the handle is never released
close_libgl_leak(plat, lib, gx) ==
    {[libgl |-> lib, glx |-> gx, crash |-> FALSE]}

\* close_libgl: the set of [libgl, glx, crash] results.
close_libgl(plat, lib, gx) ==
    CASE plat = "win" ->
           \* FreeLibrary fails harmlessly on an invalid handle
           {[libgl |-> IF lib = "open" THEN "closed" ELSE lib, glx |-> gx, crash |-> FALSE]}
      [] plat = "apple" ->
           \* CFRelease of NULL or of a released object traps
           IF lib = "open" THEN {[libgl |-> "closed", glx |-> gx, crash |-> FALSE]}
           ELSE {[libgl |-> lib, glx |-> gx, crash |-> TRUE]}
      [] OTHER ->
           IF lib = "open"
           THEN {[libgl |-> "closed", glx |-> IF gx = "valid" THEN "stale" ELSE gx,
                  crash |-> FALSE]}
           \* dlclose of an invalid handle is undefined
           ELSE {[libgl |-> lib, glx |-> gx, crash |-> c] : c \in BOOLEAN}

\* variant: a symbol the open module lacks is treated as fatal
get_proc_strict(plat, lib, gx, avail) ==
    IF lib = "open" THEN {IF avail THEN "valid" ELSE "crash"}
    ELSE IF plat = "win" THEN Maybe(avail)
    ELSE {"crash", "null"}

\* get_proc: the set of outcomes "valid", "null", "crash" of resolving a
\* symbol the driver does (avail) or does not export.
get_proc(plat, lib, gx, avail) ==
    CASE plat = "win" ->
           IF lib = "open" THEN {Lookup(avail)}
           \* wglGetProcAddress does not use libgl; GetProcAddress on an
           \* invalid handle returns NULL
           ELSE Maybe(avail)
      [] plat = "apple" ->
           IF lib = "open" THEN {Lookup(avail)}
           ELSE IF lib = "closed" THEN {"crash"} \cup Maybe(avail)
           ELSE {"crash", "null"}
      [] OTHER ->
           IF gx \in {"unset", "null"} THEN {"crash"}   \* call through NULL
           ELSE IF gx = "stale" \/ lib = "closed" THEN {"crash"} \cup Maybe(avail)
           ELSE {Lookup(avail)}

\* ------------------------------------------------------------ the queries
\* variant: the major check uses <= instead of <
parse_version_le(getIntegerv, ver, d) ==
    IF getIntegerv = "null" THEN [ret |-> -1, version |-> ver, queried |-> FALSE]
    ELSE IF d.major <= MinMajor THEN [ret |-> -1, version |-> d, queried |-> TRUE]
    ELSE [ret |-> 0, version |-> d, queried |-> TRUE]

\* variant: the version record is written only on success
parse_version_commitOnSuccess(getIntegerv, ver, d) ==
    IF getIntegerv = "null" THEN [ret |-> -1, version |-> ver, queried |-> FALSE]
    ELSE IF d.major < MinMajor THEN [ret |-> -1, version |-> ver, queried |-> TRUE]
    ELSE [ret |-> 0, version |-> d, queried |-> TRUE]

\* parse_version: the value returned and the version record afterwards.
\* getIntegerv is the glGetIntegerv pointer, d the version the driver reports.
parse_version(getIntegerv, ver, d) ==
    IF getIntegerv = "null" THEN [ret |-> -1, version |-> ver, queried |-> FALSE]
    ELSE IF d.major < MinMajor THEN [ret |-> -1, version |-> d, queried |-> TRUE]
    ELSE [ret |-> 0, version |-> d, queried |-> TRUE]

\* C truth value of a comparison
Bool(b) == IF b THEN 1 ELSE 0

\* variant: the minor comparison is strict
gl3wIsSupported_strictMinor(ver, major, minor) ==
    IF major < MinMajor THEN 0
    ELSE IF ver.major = major THEN Bool(ver.minor > minor)
    ELSE Bool(ver.major >= major)

\* variant: the gate on the requested major is off by one
gl3wIsSupported_lowGate(ver, major, minor) ==
    IF major < MinMajor - 1 THEN 0
    ELSE IF ver.major = major THEN Bool(ver.minor >= minor)
    ELSE Bool(ver.major >= major)

\* variant: no gate on the requested major
gl3wIsSupported_noGate(ver, major, minor) ==
    IF ver.major = major THEN Bool(ver.minor >= minor)
    ELSE Bool(ver.major >= major)

gl3wIsSupported(ver, major, minor) ==
    IF major < MinMajor THEN 0
    ELSE IF ver.major = major THEN Bool(ver.minor >= minor)
    ELSE Bool(ver.major >= major)

\* variant: the module is closed before the symbols are loaded
gl3wInit_next_closeFirst(s) ==
    CASE s = "call" -> "open_libgl"
      [] s = "open_libgl" -> "close_libgl"
      [] s = "close_libgl" -> "load_procs"
      [] s = "load_procs" -> "parse_version"
      [] OTHER -> "return"

\* gl3wInit: the statement that follows statement s in its body.
gl3wInit_next(s) ==
    CASE s = "call" -> "open_libgl"
      [] s = "open_libgl" -> "load_procs"
      [] s = "load_procs" -> "close_libgl"
      [] s = "close_libgl" -> "parse_version"
      [] OTHER -> "return"

\* ------------------------------------------------------------------- Init
Init ==
    /\ platform \in Platforms
    /\ ndebug \in BOOLEAN
    /\ libgl = "unset"
    /\ glx = "unset"
    /\ ptr = [n \in CatalogNames |-> "null"]
    /\ version = ZeroVersion
    /\ pc = "idle"
    /\ idx = 1
    /\ drv = NoDriver
    /\ dver = ZeroVersion
    /\ log = <<>>
    /\ ret = 0
    /\ parseRet = 0
    /\ versionBefore = ZeroVersion
    /\ queryRan = FALSE
    /\ called = FALSE
    /\ q = NoQuery
    /\ gp = NoGetProc

\* ---------------------------------------------------------------- actions
\* The caller enters gl3wInit; the driver present for this call is fixed.
Call_gl3wInit ==
    /\ pc = "idle"
    /\ \E d \in [CatalogNames -> BOOLEAN], M \in DriverMajors, m \in DriverMinors :
          /\ drv' = d
          /\ dver' = [major |-> M, minor |-> m]
    /\ pc' = gl3wInit_next("call")
    /\ idx' = 1
    /\ log' = <<>>
    /\ versionBefore' = version
    /\ q' = NoQuery
    /\ UNCHANGED <<platform, ndebug, libgl, glx, ptr, version, ret, parseRet,
                   queryRan, called, gp>>

Do_open_libgl ==
    /\ pc = "open_libgl"
    /\ \E ok \in BOOLEAN : \E r \in open_libgl(platform, ndebug, glx, ok) :
          /\ libgl' = r.libgl
          /\ glx' = r.glx
          /\ pc' = IF r.abort THEN "crashed" ELSE gl3wInit_next("open_libgl")
    /\ log' = Append(log, "open_libgl")
    /\ UNCHANGED <<platform, ndebug, ptr, version, idx, drv, dver, ret, parseRet,
                   versionBefore, queryRan, called, q, gp>>

\* load_procs: one assignment  ptr = get_proc(name)  per catalog symbol, in
\* catalog order, none skipped.
Do_load_procs ==
    /\ pc = "load_procs"
    /\ idx <= Len(Catalog)
    /\ LET name == Catalog[idx] IN
       \E res \in get_proc(platform, libgl, glx, drv[name]) :
          /\ gp' = [via |-> "load_procs", libgl |-> libgl, glx |-> glx]
          /\ log' = Append(log, "get_proc")
          /\ IF res = "crash"
             THEN /\ pc' = "crashed"
                  /\ UNCHANGED <<ptr, idx>>
             ELSE /\ ptr' = [ptr EXCEPT ![name] = res]
                  /\ idx' = idx + 1
                  /\ pc' = IF idx = Len(Catalog) THEN gl3wInit_next("load_procs")
                           ELSE "load_procs"
    /\ UNCHANGED <<platform, ndebug, libgl, glx, version, drv, dver, ret, parseRet,
                   versionBefore, queryRan, called, q>>

Do_close_libgl ==
    /\ pc = "close_libgl"
    /\ \E r \in close_libgl(platform, libgl, glx) :
          /\ libgl' = r.libgl
          /\ glx' = r.glx
          /\ pc' = IF r.crash THEN "crashed" ELSE gl3wInit_next("close_libgl")
    /\ log' = Append(log, "close_libgl")
    /\ UNCHANGED <<platform, ndebug, ptr, version, idx, drv, dver, ret, parseRet,
                   versionBefore, queryRan, called, q, gp>>

Do_parse_version ==
    /\ pc = "parse_version"
    /\ LET r == parse_version(ptr["glGetIntegerv"], version, dver) IN
          /\ version' = r.version
          /\ parseRet' = r.ret
          /\ queryRan' = (queryRan \/ r.queried)
    /\ pc' = gl3wInit_next("parse_version")
    /\ log' = Append(log, "parse_version")
    /\ UNCHANGED <<platform, ndebug, libgl, glx, ptr, idx, drv, dver, ret,
                   versionBefore, called, q, gp>>

\* return parse_version();  gl3wInit hands the value to its caller.
Return_gl3wInit ==
    /\ pc = "return"
    /\ ret' = parseRet
    /\ called' = TRUE
    /\ pc' = "returned"
    /\ UNCHANGED <<platform, ndebug, libgl, glx, ptr, version, idx, drv, dver, log,
                   parseRet, versionBefore, queryRan, q, gp>>

\* The caller carries on after gl3wInit has returned.
Resume ==
    /\ pc = "returned"
    /\ pc' = "idle"
    /\ log' = <<>>
    /\ drv' = NoDriver
    /\ dver' = ZeroVersion
    /\ versionBefore' = ZeroVersion
    /\ idx' = 1
    /\ UNCHANGED <<platform, ndebug, libgl, glx, ptr, version, ret, parseRet,
                   queryRan, called, q, gp>>

Call_gl3wIsSupported ==
    /\ pc = "idle"
    /\ \E major \in QueryMajors, minor \in QueryMinors :
          q' = [asked |-> TRUE, major |-> major, minor |-> minor,
                res |-> gl3wIsSupported(version, major, minor)]
    /\ UNCHANGED <<platform, ndebug, libgl, glx, ptr, version, pc, idx, drv, dver,
                   log, ret, parseRet, versionBefore, queryRan, called, gp>>

\* gl3wGetProcAddress(proc): return get_proc(proc), whatever the module state.
Call_gl3wGetProcAddress ==
    /\ pc = "idle"
    /\ \E name \in ProcNames, avail \in BOOLEAN :
       \E res \in get_proc(platform, libgl, glx, avail) :
          pc' = IF res = "crash" THEN "crashed" ELSE "idle"
    /\ gp' = [via |-> "gl3wGetProcAddress", libgl |-> libgl, glx |-> glx]
    /\ UNCHANGED <<platform, ndebug, libgl, glx, ptr, version, idx, drv, dver, log,
                   ret, parseRet, versionBefore, queryRan, called, q>>

Next ==
    \/ Call_gl3wInit
    \/ Do_open_libgl
    \/ Do_load_procs
    \/ Do_close_libgl
    \/ Do_parse_version
    \/ Return_gl3wInit
    \/ Resume
    \/ Call_gl3wIsSupported
    \/ Call_gl3wGetProcAddress

Spec == Init /\ [][Next]_vars

TypeOK ==
    /\ platform \in Platforms
    /\ libgl \in {"unset", "open", "null", "closed"}
    /\ glx \in {"unset", "valid", "null", "stale"}
    /\ ptr \in [CatalogNames -> {"null", "valid"}]
    /\ pc \in {"idle", "open_libgl", "load_procs", "close_libgl", "parse_version",
               "return", "returned", "crashed"}
    /\ ret \in {-1, 0}
\* ------------------------------------------------------------- properties
IsPrefix(s, t) == Len(s) <= Len(t) /\ SubSeq(t, 1, Len(s)) = s
Count(s, e) == Cardinality({k \in 1..Len(s) : s[k] = e})
ExpectedLog ==
    <<"open_libgl">> \o [k \in 1..Len(Catalog) |-> "get_proc"]
                     \o <<"close_libgl", "parse_version">>
\* a crash inside gl3wInit (the log of the running call is not empty)
CrashedInInit == pc = "crashed" /\ log # <<>>
Gate(d, getIntegerv) == getIntegerv = "null" \/ d.major < MinMajor

\* C1: every gl3wInit call performs open_libgl, the load_procs resolutions,
\* close_libgl, parse_version in exactly this order; load_procs resolves only
\* between the open and the close (on the handle open_libgl produced),
\* parse_version runs only once the module is no longer open, and gl3wInit
\* returns the value parse_version returned.
C1_InitOrder ==
    /\ IsPrefix(log, ExpectedLog)
    /\ (gp.via = "load_procs" => gp.libgl \in {"open", "null"})
    /\ (pc = "load_procs" => libgl \in {"open", "null"})
    /\ (pc \in {"parse_version", "return"} => libgl # "open")
    /\ (pc = "return" => log = ExpectedLog)
    /\ (pc = "returned" => log = ExpectedLog /\ ret = parseRet)

C1_Witness ==
    pc = "returned" /\ log = ExpectedLog /\ libgl = "closed" /\ gp.libgl = "open"

\* C2: gl3wIsSupported(major, minor) returns 0 when major < 3; otherwise
\* (vminor >= minor) when vmajor = major; otherwise (vmajor >= major).
C2_IsSupportedContract ==
    q.asked =>
        IF q.major < 3 THEN q.res = 0
        ELSE IF version.major = q.major THEN (q.res = 1) <=> (version.minor >= q.minor)
        ELSE (q.res = 1) <=> (version.major >= q.major)

C2_Witness ==
    /\ q.asked /\ q.res = 1
    /\ version.major = q.major /\ version.minor = q.minor /\ q.minor > 0

\* C3 as stated: with version 3.2 the queries (2,0), (3,1), (3,2) are
\* supported and (3,3), (4,0) are not.
C3_Original ==
    (q.asked /\ version = [major |-> 3, minor |-> 2]) =>
        /\ (<<q.major, q.minor>> \in {<<2, 0>>, <<3, 1>>, <<3, 2>>} => q.res = 1)
        /\ (<<q.major, q.minor>> \in {<<3, 3>>, <<4, 0>>} => q.res = 0)

\* C3 amended: with version 3.2 the queries (3,1), (3,2) are supported and
\* (2,0), (3,3), (4,0) are not.
C3_Examples ==
    (q.asked /\ version = [major |-> 3, minor |-> 2]) =>
        /\ (<<q.major, q.minor>> \in {<<3, 1>>, <<3, 2>>} => q.res = 1)
        /\ (<<q.major, q.minor>> \in {<<2, 0>>, <<3, 3>>, <<4, 0>>} => q.res = 0)

C3_Witness ==
    /\ q.asked /\ version = [major |-> 3, minor |-> 2]
    /\ q.major = 2 /\ q.minor = 0 /\ q.res = 0

\* C4: gl3wInit returns nonzero exactly when the glGetIntegerv pointer is
\* null or the driver reports a major version below 3, whatever else resolved.
C4_ReturnCode ==
    pc = "returned" => ((ret # 0) <=> Gate(dver, ptr["glGetIntegerv"]))

C4_Witness ==
    /\ pc = "returned" /\ ret # 0 /\ dver.major = 2
    /\ \A n \in CatalogNames : ptr[n] = "valid"

\* C5: whatever symbols resolve to null, a gl3wInit whose module opened runs
\* to its return, every pointer holds what the lookup gave for its symbol
\* (null stays null), and the return code is a function of the glGetIntegerv
\* pointer and the reported major version only.
C5_NullTolerantLoading ==
    /\ (CrashedInInit => libgl = "null")
    /\ (pc = "returned" =>
          /\ \A n \in CatalogNames : ptr[n] \in Maybe(drv[n])
          /\ (libgl = "closed" => \A n \in CatalogNames : ptr[n] = Lookup(drv[n]))
          /\ ret = IF Gate(dver, ptr["glGetIntegerv"]) THEN -1 ELSE 0)

C5_Witness ==
    /\ pc = "returned" /\ libgl = "closed" /\ ret = 0
    /\ ptr["glFoo"] = "null" /\ ptr["glBar"] = "valid"

\* C6: the version record is {0,0} before the first gl3wInit; as long as no
\* gl3wInit has got past the glGetIntegerv null check it stays {0,0} and
\* every gl3wIsSupported query returns 0.
C6_ZeroVersionUnsupported ==
    /\ (~called /\ pc \in {"idle", "open_libgl", "load_procs", "close_libgl"}
          => version = ZeroVersion)
    /\ (~queryRan =>
          /\ version = ZeroVersion
          /\ (q.asked => q.res = 0)
          /\ \A major \in QueryMajors, minor \in QueryMinors :
                gl3wIsSupported(version, major, minor) = 0)

C6_Witness ==
    /\ called /\ ~queryRan /\ ret = -1 /\ pc = "idle"
    /\ q.asked /\ q.major = 0 /\ q.minor = 0 /\ q.res = 0

\* C7 as stated: when open_libgl obtains no module, gl3wInit carries on,
\* every get_proc of load_procs yields null and the process is not terminated.
C7_LenientOpenFailure ==
    (log # <<>> /\ libgl = "null") =>
        /\ pc # "crashed"
        /\ \A k \in 1..(idx - 1) : ptr[Catalog[k]] = "null"

\* C8: the module is open only inside a gl3wInit call, is closed at every
\* return, and each call opens it once and closes it once.
C8_ModuleLifecycle ==
    /\ (libgl = "open" => (pc \in {"load_procs", "close_libgl"} \/ CrashedInInit))
    /\ Count(log, "open_libgl") <= 1
    /\ Count(log, "close_libgl") <= 1
    /\ (pc = "returned" =>
          /\ libgl # "open"
          /\ Count(log, "open_libgl") = 1
          /\ Count(log, "close_libgl") = 1)

C8_Witness ==
    pc = "returned" /\ called /\ libgl = "closed" /\ ret = -1 /\ versionBefore.major >= 3

\* C9 as stated: get_proc runs only while the module is open, never on an
\* unset, null or closed handle or an unset glx_get_proc_address.
C9_GetProcOnlyWhileOpen ==
    gp.via # "none" =>
        /\ gp.libgl = "open"
        /\ (platform = "posix" => gp.glx = "valid")

\* C10 as stated: a gl3wInit that returns nonzero leaves the version record
\* as it was, so a nonzero version.major is always >= 3.
C10_Original ==
    /\ (pc = "returned" /\ ret # 0 => version = versionBefore)
    /\ (version.major # 0 => version.major >= 3)

\* C10 amended: parse_version writes the reported numbers into the version
\* record whenever glGetIntegerv is resolved, also when it then fails on
\* major < 3; the record is unchanged only when glGetIntegerv is unresolved.
C10_VersionWrite ==
    pc = "returned" =>
        IF ptr["glGetIntegerv"] = "null" THEN version = versionBefore /\ ret # 0
        ELSE version = dver

C10_Witness ==
    /\ pc = "returned" /\ ret # 0 /\ version.major = 2
    /\ versionBefore.major = 3 /\ version = dver
====
